---------------------------- MODULE Spec2Model ----------------------------
(***************************************************************************)
(* Bitboard attack generation (chess_bitboardhelpers.py) and the Board    *)
(* adapter over the external rules engine (chess_board.py).                *)
(*                                                                         *)
(* A bitboard (np.uint64) is modelled as the set of its hot bit indices,   *)
(* a subset of 0..63: bit i is set iff i is in the set.  "|" is Or, "&" is *)
(* And, "~x" is Not(x).  The 64-bit width is kept by the shift operators,  *)
(* which drop every bit that leaves 0..63.                                 *)
(*                                                                         *)
(* A shift count is written in the source as np.uint64(n) with n a Python  *)
(* int.  For n in 0..63 the count is n.  For n >= 64 the count is n and    *)
(* the shifted value is 0.  For n < 0 the source does not fix the outcome: *)
(* it is the rule of the NumPy build it runs on.  NumPy before 2.0 wraps   *)
(* the count to 2^64 + n, which is >= 64, so the shifted value is 0; NumPy *)
(* from 2.0 on raises OverflowError.  The variable numpy holds the rule,   *)
(* and both rules are initial states.  A raised OverflowError is the value *)
(* OverflowError, which every operator on bitboards hands on, as the       *)
(* exception leaves every function between the raise and the caller.      *)
(***************************************************************************)
EXTENDS Integers, Sequences, FiniteSets, TLC

(***************************************************************************)
(* Bounds of the model.                                                    *)
(***************************************************************************)
\* squares up to Margin below 0 and above 63 are offered as arguments
Margin == 2
\* an occupancy argument holds at most MaxPieces pieces
MaxPieces == 2
\* the engine's position changes at most MaxChanges times
MaxChanges == 1

(***************************************************************************)
(* Squares, files and ranks.                                               *)
(***************************************************************************)
BOARD_SQUARES == 64

AllBits == 0 .. (BOARD_SQUARES - 1)

\* square arguments: the board and Margin squares past its last square, and
\* Margin squares before its first square
UpperSquares == 0 .. (BOARD_SQUARES - 1 + Margin)

LowerSquares == (0 - Margin) .. (0 - 1)

FileOf(s) == s % 8

RankOf(s) == s \div 8

AbsDiff(a, b) == IF a >= b THEN a - b ELSE b - a

\* File.A .. File.H of chess_constants: the squares of a file
FileSquares(f) == {s \in AllBits : FileOf(s) = f}

File_A == FileSquares(0)

File_B == FileSquares(1)

File_G == FileSquares(6)

File_H == FileSquares(7)

\* File.hexA .. File.hexH of chess_constants: the bitboard of a file
File_hexA == FileSquares(0)

File_hexB == FileSquares(1)

File_hexG == FileSquares(6)

File_hexH == FileSquares(7)

\* HOT of chess_constants: np.uint64(1)
HOT == {0}

(***************************************************************************)
(* uint64 operators of numpy on the set representation.                    *)
(***************************************************************************)
\* the rule of the NumPy build for np.uint64(n) with a Python int n < 0: "wrap"
\* (NumPy before 2.0) or "raise" (NumPy from 2.0 on); it never changes
VARIABLE numpy

NumpyRules == {"wrap", "raise"}

\* the value of an expression that raised OverflowError; no bitboard has bit -1
OverflowError == {0 - 1}

\* np.uint64(n) raises
Rejects(n) == n < 0 /\ numpy = "raise"

\* x | y
Or(x, y) == IF x = OverflowError \/ y = OverflowError THEN OverflowError ELSE x \cup y

\* x & y
And(x, y) == IF x = OverflowError \/ y = OverflowError THEN OverflowError ELSE x \cap y

\* x << np.uint64(n)
Shl(x, n) ==
    IF x = OverflowError \/ Rejects(n) THEN OverflowError
    ELSE IF n \in AllBits THEN {b + n : b \in x} \cap AllBits ELSE {}

\* x >> np.uint64(n)
Shr(x, n) ==
    IF x = OverflowError \/ Rejects(n) THEN OverflowError
    ELSE IF n \in AllBits THEN {b - n : b \in x} \cap AllBits ELSE {}

\* ~x
Not(x) == IF x = OverflowError THEN OverflowError ELSE AllBits \ x

(***************************************************************************)
(* BitOps.                                                                 *)
(***************************************************************************)
\* np.uint64(1) is the bitboard {0}
set_bit(bitboard, bit) == Or(bitboard, Shl({0}, bit))

\* clear_bit with the "~" left out: only the bit itself survives
clear_bit_keep(bitboard, bit) == And(bitboard, Shl({0}, bit))

clear_bit(bitboard, bit) == And(bitboard, Not(Shl({0}, bit)))

(***************************************************************************)
(* Rays.  Each loop of the source is a recursive operator on the pair      *)
(* (bitboard, from_square); the closing clear_bit is in the ray itself.    *)
(***************************************************************************)
RECURSIVE south_loop(_, _, _)
\* for i in range(0, -64, -8): bitboard |= set_bit(bitboard, from_square + i)
south_loop(bitboard, from_square, i) ==
    IF i > 0 - 64
    THEN south_loop(Or(bitboard, set_bit(bitboard, from_square + i)), from_square, i - 8)
    ELSE bitboard

get_south_ray(bitboard, from_square) ==
    clear_bit(south_loop(bitboard, from_square, 0), from_square)

RECURSIVE north_loop(_, _, _)
\* for i in range(0, 64, 8): bitboard |= set_bit(bitboard, from_square + i)
north_loop(bitboard, from_square, i) ==
    IF i < 64
    THEN north_loop(Or(bitboard, set_bit(bitboard, from_square + i)), from_square, i + 8)
    ELSE bitboard

get_north_ray(bitboard, from_square) ==
    clear_bit(north_loop(bitboard, from_square, 0), from_square)

RECURSIVE west_loop(_, _)
\* while not from_square % 8 == 0: ...; then the closing bitboard |= HOT << from_square
west_loop(bitboard, from_square) ==
    IF from_square % 8 # 0
    THEN west_loop(Or(bitboard, Shl(HOT, from_square)), from_square - 1)
    ELSE Or(bitboard, Shl(HOT, from_square))

get_west_ray(bitboard, from_square) ==
    clear_bit(IF from_square % 8 = 0
              THEN Or(bitboard, Shl(HOT, from_square))
              ELSE west_loop(bitboard, from_square),
              from_square)

RECURSIVE east_loop(_, _)
\* while not from_square % 8 == 0: bitboard |= HOT << from_square; from_square += 1
east_loop(bitboard, from_square) ==
    IF from_square % 8 # 0
    THEN east_loop(Or(bitboard, Shl(HOT, from_square)), from_square + 1)
    ELSE bitboard

get_east_ray(bitboard, from_square) ==
    clear_bit(IF from_square % 8 = 0
              THEN east_loop(Or(bitboard, Shl(HOT, from_square)), from_square + 1)
              ELSE east_loop(bitboard, from_square),
              from_square)

RECURSIVE southeast_loop(_, _)
\* while not from_square % 8 == 0 and from_square not in File.H: ...; closing |=
southeast_loop(bitboard, from_square) ==
    IF from_square % 8 # 0 /\ from_square \notin File_H
    THEN southeast_loop(Or(bitboard, Shl(HOT, from_square)), from_square - 7)
    ELSE Or(bitboard, Shl(HOT, from_square))

get_southeast_ray(bitboard, from_square) ==
    clear_bit(IF from_square % 8 = 0 /\ from_square \notin File_H
              THEN southeast_loop(Or(bitboard, Shl(HOT, from_square)), from_square - 7)
              ELSE southeast_loop(bitboard, from_square),
              from_square)

RECURSIVE northwest_loop(_, _)
\* while not from_square % 8 == 0 and from_square not in File.A: ...; closing |=
northwest_loop(bitboard, from_square) ==
    IF from_square % 8 # 0 /\ from_square \notin File_A
    THEN northwest_loop(Or(bitboard, Shl(HOT, from_square)), from_square + 7)
    ELSE Or(bitboard, Shl(HOT, from_square))

get_northwest_ray(bitboard, from_square) ==
    clear_bit(IF from_square % 8 = 0 /\ from_square \notin File_A
              THEN northwest_loop(Or(bitboard, Shl(HOT, from_square)), from_square + 7)
              ELSE northwest_loop(bitboard, from_square),
              from_square)

RECURSIVE southwest_loop(_, _)
\* while not from_square % 8 == 0: ...; then the closing bitboard |= HOT << from_square
southwest_loop(bitboard, from_square) ==
    IF from_square % 8 # 0
    THEN southwest_loop(Or(bitboard, Shl(HOT, from_square)), from_square - 9)
    ELSE Or(bitboard, Shl(HOT, from_square))

get_southwest_ray(bitboard, from_square) ==
    clear_bit(IF from_square % 8 = 0
              THEN Or(bitboard, Shl(HOT, from_square))
              ELSE southwest_loop(bitboard, from_square),
              from_square)

RECURSIVE northeast_loop(_, _)
\* while not from_square % 8 == 0: bitboard |= HOT << from_square; from_square += 9
northeast_loop(bitboard, from_square) ==
    IF from_square % 8 # 0
    THEN northeast_loop(Or(bitboard, Shl(HOT, from_square)), from_square + 9)
    ELSE bitboard

get_northeast_ray(bitboard, from_square) ==
    clear_bit(IF from_square % 8 = 0
              THEN northeast_loop(Or(bitboard, Shl(HOT, from_square)), from_square + 9)
              ELSE northeast_loop(bitboard, from_square),
              from_square)

(***************************************************************************)
(* The knight.                                                             *)
(***************************************************************************)
KnightShifts == <<6, 10, 15, 17, -6, -10, -15, -17>>

\* one pass of the loop body of gen_knight_attack: set the bit, then mask
knight_step(attack_bitboard, square, shift) ==
    LET set    == Or(attack_bitboard, set_bit(attack_bitboard, square + shift))
        maskAB == IF square \in (File_A \cup File_B)
                  THEN And(set, Not(File_hexG \cup File_hexH))
                  ELSE set
    IN  IF square \in (File_G \cup File_H)
        THEN And(maskAB, Not(File_hexA \cup File_hexB))
        ELSE maskAB

RECURSIVE knight_loop(_, _, _)
\* for shift in [6, 10, 15, 17, -6, -10, -15, -17]
knight_loop(attack_bitboard, square, k) ==
    IF k <= Len(KnightShifts)
    THEN knight_loop(knight_step(attack_bitboard, square, KnightShifts[k]), square, k + 1)
    ELSE attack_bitboard

gen_knight_attack(square) == knight_loop({}, square, 1)

(***************************************************************************)
(* The bishop, the rook and the queen.                                     *)
(***************************************************************************)
gen_bishop_attack(from_square) ==
    LET ne == get_northeast_ray({}, from_square)
        sw == get_southwest_ray(ne, from_square)
        nw == get_northwest_ray(sw, from_square)
        se == get_southeast_ray(nw, from_square)
    IN  clear_bit(se, from_square)

gen_rook_attack_row(square) ==
    clear_bit(get_south_ray(get_north_ray({}, square), square), square)

gen_rook_attack_file(square) ==
    clear_bit(get_west_ray(get_east_ray({}, square), square), square)

gen_queen_attack(square) ==
    Or(Or(gen_bishop_attack(square), gen_rook_attack_row(square)),
       gen_rook_attack_file(square))

(***************************************************************************)
(* The king.                                                               *)
(***************************************************************************)
RECURSIVE king_loop(_, _, _, _, _)
\* for i in shifts: attack_bb |= HOT << np.uint64(square + i) & mask
king_loop(attack_bb, square, shifts, mask, k) ==
    IF k <= Len(shifts)
    THEN king_loop(Or(attack_bb, And(Shl(HOT, square + shifts[k]), mask)),
                   square, shifts, mask, k + 1)
    ELSE attack_bb

\* the first loop has no mask; the second masks file A, the third file H
gen_king_attack(square) ==
    king_loop(king_loop(king_loop({}, square, <<8, -8>>, AllBits, 1),
                        square, <<1, 9, -7>>, Not(File_hexA), 1),
              square, <<-1, -9, 7>>, Not(File_hexH), 1)

(***************************************************************************)
(* The aggregators: the occupied squares in ascending order, then the      *)
(* union of the per-square attacks over that list.                         *)
(***************************************************************************)
RECURSIVE scan_squares(_, _, _)
\* for square in range(64): if bitboard & np.uint64(1) << np.uint64(square): append
scan_squares(bitboard, square, squares) ==
    IF square < BOARD_SQUARES
    THEN scan_squares(bitboard, square + 1,
                      IF And(bitboard, Shl({0}, square)) # {}
                      THEN Append(squares, square)
                      ELSE squares)
    ELSE squares

get_knight_squares(bitboard) == scan_squares(bitboard, 0, <<>>)

get_bishop_squares(bitboard) == scan_squares(bitboard, 0, <<>>)

get_rook_squares(bitboard) == scan_squares(bitboard, 0, <<>>)

get_queen_squares(bitboard) == scan_squares(bitboard, 0, <<>>)

get_king_squares(bitboard) == scan_squares(bitboard, 0, <<>>)

RECURSIVE knight_fold(_, _, _)
knight_fold(knight_attack, squares, k) ==
    IF k <= Len(squares)
    THEN knight_fold(Or(knight_attack, gen_knight_attack(squares[k])), squares, k + 1)
    ELSE knight_attack

make_knight_attack(bitboard) == knight_fold({}, get_knight_squares(bitboard), 1)

RECURSIVE bishop_fold(_, _, _)
bishop_fold(bishop_attack, squares, k) ==
    IF k <= Len(squares)
    THEN bishop_fold(Or(bishop_attack, gen_bishop_attack(squares[k])), squares, k + 1)
    ELSE bishop_attack

make_bishop_attack(bitboard) == bishop_fold({}, get_bishop_squares(bitboard), 1)

RECURSIVE rook_fold(_, _, _)
rook_fold(rook_attack, squares, k) ==
    IF k <= Len(squares)
    THEN rook_fold(Or(rook_attack, Or(gen_rook_attack_file(squares[k]),
                                      gen_rook_attack_row(squares[k]))),
                   squares, k + 1)
    ELSE rook_attack

make_rook_attack(bitboard) == rook_fold({}, get_rook_squares(bitboard), 1)

RECURSIVE queen_fold(_, _, _)
queen_fold(queen_attack, squares, k) ==
    IF k <= Len(squares)
    THEN queen_fold(Or(queen_attack, gen_queen_attack(squares[k])), squares, k + 1)
    ELSE queen_attack

make_queen_attack(bitboard) == queen_fold({}, get_queen_squares(bitboard), 1)

RECURSIVE king_fold(_, _, _)
king_fold(king_attack, squares, k) ==
    IF k <= Len(squares)
    THEN king_fold(Or(king_attack, gen_king_attack(squares[k])), squares, k + 1)
    ELSE king_attack

make_king_attack(bitboard) == king_fold({}, get_king_squares(bitboard), 1)

(***************************************************************************)
(* Pawn attacks of the Board, as functions of the stored pawn bitboard.    *)
(***************************************************************************)
white_pawn_east_attacks(white_pawn_bitboard) ==
    And(Shl(white_pawn_bitboard, 9), Not(File_hexA))

\* the west attack masked by file A instead of file H
white_pawn_west_attacks_swapped(white_pawn_bitboard) ==
    And(Shl(white_pawn_bitboard, 7), Not(File_hexA))

white_pawn_west_attacks(white_pawn_bitboard) ==
    And(Shl(white_pawn_bitboard, 7), Not(File_hexH))

white_pawn_attacks(white_pawn_bitboard) ==
    Or(white_pawn_east_attacks(white_pawn_bitboard),
       white_pawn_west_attacks(white_pawn_bitboard))

black_pawn_east_attacks(black_pawn_bitboard) ==
    And(Shr(black_pawn_bitboard, 7), Not(File_hexA))

black_pawn_west_attacks(black_pawn_bitboard) ==
    And(Shr(black_pawn_bitboard, 9), Not(File_hexH))

black_pawn_attacks(black_pawn_bitboard) ==
    Or(black_pawn_east_attacks(black_pawn_bitboard),
       black_pawn_west_attacks(black_pawn_bitboard))

(***************************************************************************)
(* State.                                                                  *)
(*   numpy                 the rule of the NumPy build (declared above)    *)
(*   fn, square, bitboard  the last call: its name and its arguments       *)
(*   res, outcome          what the last call returned: "value" with the   *)
(*                         bitboard res, or the name of the exception      *)
(*   engine                the external rules engine's position            *)
(*                         (self.board): the per-colour and per-kind masks *)
(*   synced                an update_board has assigned the 12 occupancy   *)
(*                         fields: the Board has them                      *)
(*   stored                the 12 occupancy bitboards of the Board         *)
(*   cache                 the 10 *_attacks_bitboard fields of the Board;  *)
(*                         a field never assigned holds the empty bitboard *)
(*   changes               number of position changes of the engine so far *)
(*   wpc, wocc, wlocal     a thread inside update_board: the statement it  *)
(*                         is at (0: not inside), its locals black, white  *)
(*                         and the bit_boards it has built so far          *)
(*   rpc, racc             a thread inside white_pieces: the number of     *)
(*                         fields it has read and their union so far       *)
(*   snaps                 the occupancies of the positions the engine     *)
(*                         held when update_board read from it             *)
(***************************************************************************)
VARIABLES fn, square, bitboard, res, outcome, engine, synced, stored, cache, changes,
          wpc, wocc, wlocal, rpc, racc, snaps

callVars == <<fn, square, bitboard, res, outcome>>

boardVars == <<engine, synced, stored, cache, changes>>

threadVars == <<wpc, wocc, wlocal, rpc, racc, snaps>>

vars == <<numpy, fn, square, bitboard, res, outcome, engine, synced, stored, cache,
          changes, wpc, wocc, wlocal, rpc, racc, snaps>>

RayNames == {"get_north_ray", "get_south_ray", "get_east_ray", "get_west_ray",
             "get_northeast_ray", "get_northwest_ray", "get_southeast_ray",
             "get_southwest_ray"}

GenNames == {"gen_knight_attack", "gen_king_attack", "gen_bishop_attack",
             "gen_rook_attack_row", "gen_rook_attack_file", "gen_queen_attack"}

MakeNames == {"make_knight_attack", "make_bishop_attack", "make_rook_attack",
              "make_queen_attack", "make_king_attack"}

PawnNames == {"white_pawn_attacks", "black_pawn_attacks"}

\* set_bit followed by clear_bit on the same bit
BitNames == {"set_bit_clear_bit"}

Ray(name, bb, s) ==
    CASE name = "get_north_ray"     -> get_north_ray(bb, s)
      [] name = "get_south_ray"     -> get_south_ray(bb, s)
      [] name = "get_east_ray"      -> get_east_ray(bb, s)
      [] name = "get_west_ray"      -> get_west_ray(bb, s)
      [] name = "get_northeast_ray" -> get_northeast_ray(bb, s)
      [] name = "get_northwest_ray" -> get_northwest_ray(bb, s)
      [] name = "get_southeast_ray" -> get_southeast_ray(bb, s)
      [] name = "get_southwest_ray" -> get_southwest_ray(bb, s)

Gen(name, s) ==
    CASE name = "gen_knight_attack"    -> gen_knight_attack(s)
      [] name = "gen_king_attack"      -> gen_king_attack(s)
      [] name = "gen_bishop_attack"    -> gen_bishop_attack(s)
      [] name = "gen_rook_attack_row"  -> gen_rook_attack_row(s)
      [] name = "gen_rook_attack_file" -> gen_rook_attack_file(s)
      [] name = "gen_queen_attack"     -> gen_queen_attack(s)

Make(name, bb) ==
    CASE name = "make_knight_attack" -> make_knight_attack(bb)
      [] name = "make_bishop_attack" -> make_bishop_attack(bb)
      [] name = "make_rook_attack"   -> make_rook_attack(bb)
      [] name = "make_queen_attack"  -> make_queen_attack(bb)
      [] name = "make_king_attack"   -> make_king_attack(bb)

Pawn(name, bb) ==
    CASE name = "white_pawn_attacks" -> white_pawn_attacks(bb)
      [] name = "black_pawn_attacks" -> black_pawn_attacks(bb)

\* corners, edge squares and centre squares, for occupancies of several pieces
KeySquares == {0, 1, 7, 8, 15, 27, 36, 48, 55, 56, 62, 63}

RECURSIVE OccUpTo(_)
\* the bitboards with at most n hot bits, all on KeySquares
OccUpTo(n) ==
    IF n = 0 THEN {{}}
    ELSE LET P == OccUpTo(n - 1) IN P \cup {p \cup {s} : p \in P, s \in KeySquares}

\* occupancy arguments: one piece anywhere, or up to MaxPieces on KeySquares
Occupancies == {{s} : s \in AllBits} \cup OccUpTo(MaxPieces)

(***************************************************************************)
(* The engine: chess.Board() starts in the standard position, a1 = 0.      *)
(***************************************************************************)
KindNames == {"pawns", "knights", "bishops", "rooks", "queens", "kings"}

BLACK == 1

WHITE == 2

StartPosition ==
    [occupied_co |-> <<48 .. 63, 0 .. 15>>,
     pawns       |-> (8 .. 15) \cup (48 .. 55),
     knights     |-> {1, 6, 57, 62},
     bishops     |-> {2, 5, 58, 61},
     rooks       |-> {0, 7, 56, 63},
     queens      |-> {3, 59},
     kings       |-> {4, 60}]

\* the squares the engine's position changes touch: e2 (a white pawn at the
\* start) and e4 (empty at the start)
Touched == {12, 28}

\* chess.Board.remove_piece_at: clear the square in every mask
remove_piece(e, sq) ==
    [occupied_co |-> <<e.occupied_co[1] \ {sq}, e.occupied_co[2] \ {sq}>>,
     pawns       |-> e.pawns \ {sq},
     knights     |-> e.knights \ {sq},
     bishops     |-> e.bishops \ {sq},
     rooks       |-> e.rooks \ {sq},
     queens      |-> e.queens \ {sq},
     kings       |-> e.kings \ {sq}]

\* chess.Board.set_piece_at: remove what stands there, then set kind and colour
set_piece(e, sq, kind, colour) ==
    LET r == remove_piece(e, sq)
    IN  [r EXCEPT ![kind] = @ \cup {sq},
                  !.occupied_co[colour] = @ \cup {sq}]

\* a kind mask of the engine written directly: board.<kind> |= 1 << sq
or_mask(e, sq, kind) == [e EXCEPT ![kind] = @ \cup {sq}]

\* two piece kinds of one colour claim the same square
Overlapping(e) ==
    \E c \in {BLACK, WHITE} : \E k1, k2 \in KindNames :
        k1 # k2 /\ (e.occupied_co[c] \cap e[k1] \cap e[k2]) # {}

(***************************************************************************)
(* The Board.                                                              *)
(***************************************************************************)
NoBitboards ==
    [black_pawn_bitboard |-> {}, black_rook_bitboard |-> {},
     black_knight_bitboard |-> {}, black_bishop_bitboard |-> {},
     black_queen_bitboard |-> {}, black_king_bitboard |-> {},
     white_pawn_bitboard |-> {}, white_rook_bitboard |-> {},
     white_knight_bitboard |-> {}, white_bishop_bitboard |-> {},
     white_queen_bitboard |-> {}, white_king_bitboard |-> {}]

NoAttacks ==
    [white_knight_attacks_bitboard |-> {}, black_knight_attacks_bitboard |-> {},
     white_bishop_attacks_bitboard |-> {}, black_bishop_attacks_bitboard |-> {},
     white_rook_attacks_bitboard |-> {}, black_rook_attacks_bitboard |-> {},
     white_queen_attacks_bitboard |-> {}, black_queen_attacks_bitboard |-> {},
     white_king_attacks_bitboard |-> {}, black_king_attacks_bitboard |-> {}]

\* the 12 bitboards update_board reads from the engine
bit_boards(e) ==
    LET black == e.occupied_co[BLACK]
        white == e.occupied_co[WHITE]
    IN  [black_pawn_bitboard   |-> black \cap e.pawns,
         black_rook_bitboard   |-> black \cap e.rooks,
         black_knight_bitboard |-> black \cap e.knights,
         black_bishop_bitboard |-> black \cap e.bishops,
         black_queen_bitboard  |-> black \cap e.queens,
         black_king_bitboard   |-> black \cap e.kings,
         white_pawn_bitboard   |-> white \cap e.pawns,
         white_rook_bitboard   |-> white \cap e.rooks,
         white_knight_bitboard |-> white \cap e.knights,
         white_bishop_bitboard |-> white \cap e.bishops,
         white_queen_bitboard  |-> white \cap e.queens,
         white_king_bitboard   |-> white \cap e.kings]

\* the attack properties update_board copies into the *_attacks_bitboard fields
attacks_of(b) ==
    [white_knight_attacks_bitboard |-> make_knight_attack(b.white_knight_bitboard),
     black_knight_attacks_bitboard |-> make_knight_attack(b.black_knight_bitboard),
     white_bishop_attacks_bitboard |-> make_bishop_attack(b.white_bishop_bitboard),
     black_bishop_attacks_bitboard |-> make_bishop_attack(b.black_bishop_bitboard),
     white_rook_attacks_bitboard   |-> make_rook_attack(b.white_rook_bitboard),
     black_rook_attacks_bitboard   |-> make_rook_attack(b.black_rook_bitboard),
     white_queen_attacks_bitboard  |-> make_queen_attack(b.white_queen_bitboard),
     black_queen_attacks_bitboard  |-> make_queen_attack(b.black_queen_bitboard),
     white_king_attacks_bitboard   |-> make_king_attack(b.white_king_bitboard),
     black_king_attacks_bitboard   |-> make_king_attack(b.black_king_bitboard)]

white_pieces(b) ==
    b.white_pawn_bitboard \cup b.white_knight_bitboard \cup b.white_bishop_bitboard
    \cup b.white_rook_bitboard \cup b.white_queen_bitboard \cup b.white_king_bitboard

black_pieces(b) ==
    b.black_pawn_bitboard \cup b.black_knight_bitboard \cup b.black_bishop_bitboard
    \cup b.black_rook_bitboard \cup b.black_queen_bitboard \cup b.black_king_bitboard

occupied_squares(b) == white_pieces(b) \cup black_pieces(b)

\* the occupancy fields in the order update_board builds and assigns them, each
\* with the colour and the kind mask of the engine it is read from
FieldOrder ==
    <<[field |-> "black_pawn_bitboard",   colour |-> BLACK, kind |-> "pawns"],
      [field |-> "black_rook_bitboard",   colour |-> BLACK, kind |-> "rooks"],
      [field |-> "black_knight_bitboard", colour |-> BLACK, kind |-> "knights"],
      [field |-> "black_bishop_bitboard", colour |-> BLACK, kind |-> "bishops"],
      [field |-> "black_queen_bitboard",  colour |-> BLACK, kind |-> "queens"],
      [field |-> "black_king_bitboard",   colour |-> BLACK, kind |-> "kings"],
      [field |-> "white_pawn_bitboard",   colour |-> WHITE, kind |-> "pawns"],
      [field |-> "white_rook_bitboard",   colour |-> WHITE, kind |-> "rooks"],
      [field |-> "white_knight_bitboard", colour |-> WHITE, kind |-> "knights"],
      [field |-> "white_bishop_bitboard", colour |-> WHITE, kind |-> "bishops"],
      [field |-> "white_queen_bitboard",  colour |-> WHITE, kind |-> "queens"],
      [field |-> "white_king_bitboard",   colour |-> WHITE, kind |-> "kings"]>>

\* the attack fields in the order update_board assigns them, each with the
\* aggregator and the occupancy field its property reads
AttackOrder ==
    <<[field |-> "white_knight_attacks_bitboard", make |-> "make_knight_attack",
       from |-> "white_knight_bitboard"],
      [field |-> "black_knight_attacks_bitboard", make |-> "make_knight_attack",
       from |-> "black_knight_bitboard"],
      [field |-> "white_bishop_attacks_bitboard", make |-> "make_bishop_attack",
       from |-> "white_bishop_bitboard"],
      [field |-> "black_bishop_attacks_bitboard", make |-> "make_bishop_attack",
       from |-> "black_bishop_bitboard"],
      [field |-> "white_rook_attacks_bitboard", make |-> "make_rook_attack",
       from |-> "white_rook_bitboard"],
      [field |-> "black_rook_attacks_bitboard", make |-> "make_rook_attack",
       from |-> "black_rook_bitboard"],
      [field |-> "white_queen_attacks_bitboard", make |-> "make_queen_attack",
       from |-> "white_queen_bitboard"],
      [field |-> "black_queen_attacks_bitboard", make |-> "make_queen_attack",
       from |-> "black_queen_bitboard"],
      [field |-> "white_king_attacks_bitboard", make |-> "make_king_attack",
       from |-> "white_king_bitboard"],
      [field |-> "black_king_attacks_bitboard", make |-> "make_king_attack",
       from |-> "black_king_bitboard"]>>

RECURSIVE refresh(_, _, _)
\* the assignments of the attack fields from the k-th on, over the occupancy b:
\* the fields after them and whether a property raised, which ends update_board
\* with the fields before it assigned and the others as they were
refresh(c, b, k) ==
    IF k > Len(AttackOrder) THEN [cache |-> c, raised |-> FALSE]
    ELSE LET a == AttackOrder[k]
             v == Make(a.make, b[a.from])
         IN  IF v = OverflowError
             THEN [cache |-> c, raised |-> TRUE]
             ELSE refresh([c EXCEPT ![a.field] = v], b, k + 1)

(***************************************************************************)
(* Initial state: Board() has built the engine and nothing else; no        *)
(* function has been called.  The build has either rule.                   *)
(***************************************************************************)
Init ==
    /\ numpy \in NumpyRules
    /\ fn = "none"
    /\ square = 0
    /\ bitboard = {}
    /\ res = {}
    /\ outcome = "none"
    /\ engine = StartPosition
    /\ synced = FALSE
    /\ stored = NoBitboards
    /\ cache = NoAttacks
    /\ changes = 0
    /\ wpc = 0
    /\ wocc = <<{}, {}>>
    /\ wlocal = NoBitboards
    /\ rpc = 0
    /\ racc = {}
    /\ snaps = {}

(***************************************************************************)
(* Calls of the helper functions, one at a time.                           *)
(***************************************************************************)
\* the call returns its value, or the OverflowError raised inside it leaves it
Returned(name, s, bb, value) ==
    /\ fn = "none"
    /\ fn' = name
    /\ square' = s
    /\ bitboard' = bb
    /\ IF value = OverflowError
       THEN res' = {} /\ outcome' = "OverflowError"
       ELSE res' = value /\ outcome' = "value"

\* a ray function called with an empty accumulator
CallRay(name, s) ==
    /\ Returned(name, s, {}, Ray(name, {}, s))
    /\ UNCHANGED boardVars
    /\ UNCHANGED threadVars
    /\ UNCHANGED numpy

\* a per-square attack generator
CallGen(name, s) ==
    /\ Returned(name, s, {}, Gen(name, s))
    /\ UNCHANGED boardVars
    /\ UNCHANGED threadVars
    /\ UNCHANGED numpy

\* an aggregator called on an occupancy
CallMake(name, occ) ==
    /\ Returned(name, 0, occ, Make(name, occ))
    /\ UNCHANGED boardVars
    /\ UNCHANGED threadVars
    /\ UNCHANGED numpy

\* a pawn attack property read over a pawn occupancy
CallPawn(name, occ) ==
    /\ Returned(name, 0, occ, Pawn(name, occ))
    /\ UNCHANGED boardVars
    /\ UNCHANGED threadVars
    /\ UNCHANGED numpy

\* the caller takes the result; the next call starts from there
Return ==
    /\ fn \in RayNames \cup GenNames \cup MakeNames \cup PawnNames \cup BitNames
    /\ fn' = "none"
    /\ square' = 0
    /\ bitboard' = {}
    /\ res' = {}
    /\ outcome' = "none"
    /\ UNCHANGED boardVars
    /\ UNCHANGED threadVars
    /\ UNCHANGED numpy

Next ==
    \/ \E name \in RayNames, s \in UpperSquares : CallRay(name, s)
    \/ \E name \in RayNames, s \in LowerSquares : CallRay(name, s)
    \/ \E name \in GenNames, s \in UpperSquares : CallGen(name, s)
    \/ \E name \in GenNames, s \in LowerSquares : CallGen(name, s)
    \/ \E name \in MakeNames, occ \in Occupancies : CallMake(name, occ)
    \/ \E name \in PawnNames, occ \in Occupancies : CallPawn(name, occ)
    \/ Return

Spec == Init /\ [][Next]_vars

(***************************************************************************)
(* BitOps called on their own: a bit is set, then cleared.                 *)
(***************************************************************************)
SetThenClear ==
    /\ fn = "none"
    /\ \E bb \in Occupancies, s \in AllBits :
          Returned("set_bit_clear_bit", s, bb, clear_bit(set_bit(bb, s), s))
    /\ UNCHANGED boardVars
    /\ UNCHANGED threadVars
    /\ UNCHANGED numpy

NextBits ==
    \/ SetThenClear
    \/ Return

SpecBits == Init /\ [][NextBits]_vars

(***************************************************************************)
(* The Board over the engine.                                              *)
(***************************************************************************)
\* the engine puts a piece on a square (a move, a capture, a set-up)
EngineSetPiece(sq, kind, colour) ==
    /\ changes < MaxChanges
    /\ engine' = set_piece(engine, sq, kind, colour)
    /\ changes' = changes + 1
    /\ UNCHANGED <<fn, square, bitboard, res, outcome, synced, stored, cache>>
    /\ UNCHANGED threadVars
    /\ UNCHANGED numpy

\* the engine empties a square
EngineRemovePiece(sq) ==
    /\ changes < MaxChanges
    /\ engine' = remove_piece(engine, sq)
    /\ changes' = changes + 1
    /\ UNCHANGED <<fn, square, bitboard, res, outcome, synced, stored, cache>>
    /\ UNCHANGED threadVars
    /\ UNCHANGED numpy

\* a kind mask of the engine is written without the rest of the position
EngineOrMask(sq, kind) ==
    /\ changes < MaxChanges
    /\ engine' = or_mask(engine, sq, kind)
    /\ changes' = changes + 1
    /\ UNCHANGED <<fn, square, bitboard, res, outcome, synced, stored, cache>>
    /\ UNCHANGED threadVars
    /\ UNCHANGED numpy

\* Board.update_board, run with no other thread: read the 12 bitboards, store
\* them, assign the attack fields until one of the properties raises
update_board ==
    /\ stored' = bit_boards(engine)
    /\ synced' = TRUE
    /\ LET r == refresh(cache, bit_boards(engine), 1)
       IN  /\ cache' = r.cache
           /\ outcome' = IF r.raised THEN "OverflowError" ELSE "value"
    /\ fn' = "update_board"
    /\ res' = {}
    /\ UNCHANGED <<square, bitboard, engine, changes>>
    /\ UNCHANGED threadVars
    /\ UNCHANGED numpy

\* Board.occupied_squares: AttributeError before the first update_board
QueryOccupied ==
    /\ fn' = "occupied_squares"
    /\ IF synced
       THEN res' = occupied_squares(stored) /\ outcome' = "value"
       ELSE res' = {} /\ outcome' = "AttributeError"
    /\ UNCHANGED <<square, bitboard, engine, synced, stored, cache, changes>>
    /\ UNCHANGED threadVars
    /\ UNCHANGED numpy

NextBoard ==
    \/ \E sq \in Touched, kind \in KindNames, colour \in {BLACK, WHITE} :
          EngineSetPiece(sq, kind, colour)
    \/ \E sq \in Touched : EngineRemovePiece(sq)
    \/ \E sq \in Touched, kind \in KindNames : EngineOrMask(sq, kind)
    \/ update_board
    \/ QueryOccupied

SpecBoard == Init /\ [][NextBoard]_vars

(***************************************************************************)
(* The Board shared between threads.  One thread runs update_board, one    *)
(* reads white_pieces, the engine moves on; the threads switch between     *)
(* attribute loads and stores: update_board loads occupied_co and then a   *)
(* kind mask of the engine for each of its 12 bitboards, assigns its       *)
(* fields one by one, and white_pieces loads its six fields one by one.    *)
(* There is no lock in the Board.                                          *)
(***************************************************************************)
\* the fields white_pieces loads, left to right
WhiteOrder ==
    <<"white_pawn_bitboard", "white_knight_bitboard", "white_bishop_bitboard",
      "white_rook_bitboard", "white_queen_bitboard", "white_king_bitboard">>

\* the position of update_board after its last load and after its last store
LastLoad == Len(FieldOrder)

LastStore == 2 * Len(FieldOrder)

\* the Board has the occupancy field: an update_board has assigned it
HasField(f) ==
    synced \/ \E i \in 1 .. Len(FieldOrder) :
                  FieldOrder[i].field = f /\ wpc > LastLoad + i

\* update_board, black, white = self.board.occupied_co
WriterRead ==
    /\ wpc = 0
    /\ wocc' = engine.occupied_co
    /\ wlocal' = NoBitboards
    /\ snaps' = snaps \cup {bit_boards(engine)}
    /\ wpc' = 1
    /\ UNCHANGED <<numpy, fn, square, bitboard, res, outcome, engine, synced, stored,
                   cache, changes, rpc, racc>>

\* update_board, one element of the array: <colour> & self.board.<kind>, the
\* kind mask loaded from the engine as it is now
WriterLoad ==
    /\ wpc \in 1 .. LastLoad
    /\ LET f == FieldOrder[wpc]
       IN  wlocal' = [wlocal EXCEPT ![f.field] = wocc[f.colour] \cap engine[f.kind]]
    /\ snaps' = snaps \cup {bit_boards(engine)}
    /\ wpc' = wpc + 1
    /\ UNCHANGED <<numpy, fn, square, bitboard, res, outcome, engine, synced, stored,
                   cache, changes, wocc, rpc, racc>>

\* update_board, one of self.<kind>_bitboard = bit_boards[i]
WriterStore ==
    /\ wpc \in (LastLoad + 1) .. LastStore
    /\ LET f == FieldOrder[wpc - LastLoad]
       IN  stored' = [stored EXCEPT ![f.field] = wlocal[f.field]]
    /\ synced' = (synced \/ wpc = LastStore)
    /\ wpc' = wpc + 1
    /\ UNCHANGED <<numpy, fn, square, bitboard, res, outcome, engine, cache, changes,
                   wocc, wlocal, rpc, racc, snaps>>

\* update_board, one of self.<kind>_attacks_bitboard = self.<kind>_attacks; the
\* property raises and update_board ends, or the field is assigned and after
\* the last one update_board returns
WriterCache ==
    /\ wpc > LastStore
    /\ LET a == AttackOrder[wpc - LastStore]
           v == Make(a.make, stored[a.from])
       IN  IF v = OverflowError
           THEN /\ cache' = cache
                /\ wpc' = 0
                /\ fn' = "update_board" /\ res' = {} /\ outcome' = "OverflowError"
           ELSE /\ cache' = [cache EXCEPT ![a.field] = v]
                /\ IF wpc = LastStore + Len(AttackOrder)
                   THEN /\ wpc' = 0
                        /\ fn' = "update_board" /\ res' = {} /\ outcome' = "value"
                   ELSE /\ wpc' = wpc + 1
                        /\ UNCHANGED <<fn, res, outcome>>
    /\ UNCHANGED <<numpy, square, bitboard, engine, synced, stored, changes,
                   wocc, wlocal, rpc, racc, snaps>>

\* white_pieces, one attribute load: AttributeError if the field is not there
ReaderLoad ==
    /\ rpc < Len(WhiteOrder)
    /\ IF HasField(WhiteOrder[rpc + 1])
       THEN /\ racc' = racc \cup stored[WhiteOrder[rpc + 1]]
            /\ rpc' = rpc + 1
            /\ UNCHANGED <<fn, res, outcome>>
       ELSE /\ racc' = {}
            /\ rpc' = 0
            /\ fn' = "white_pieces"
            /\ res' = {}
            /\ outcome' = "AttributeError"
    /\ UNCHANGED <<numpy, square, bitboard, engine, synced, stored, cache, changes,
                   wpc, wocc, wlocal, snaps>>

\* white_pieces returns the union of the six loads
ReaderReturn ==
    /\ rpc = Len(WhiteOrder)
    /\ fn' = "white_pieces"
    /\ res' = racc
    /\ outcome' = "value"
    /\ racc' = {}
    /\ rpc' = 0
    /\ UNCHANGED <<numpy, square, bitboard, engine, synced, stored, cache, changes,
                   wpc, wocc, wlocal, snaps>>

NextThreads ==
    \/ \E sq \in Touched : EngineSetPiece(sq, "knights", WHITE)
    \/ \E sq \in Touched : EngineRemovePiece(sq)
    \/ WriterRead
    \/ WriterLoad
    \/ WriterStore
    \/ WriterCache
    \/ ReaderLoad
    \/ ReaderReturn

SpecThreads == Init /\ [][NextThreads]_vars

(***************************************************************************)
(* Reference sets of squares, by rank and file arithmetic.                 *)
(***************************************************************************)
\* the squares k steps (k >= 1) from s in the direction (df, dr), on the board
RaySquares(s, df, dr) ==
    {t \in AllBits : \E k \in 1 .. 7 :
        /\ FileOf(t) = FileOf(s) + k * df
        /\ RankOf(t) = RankOf(s) + k * dr
        /\ t = s + k * (8 * dr + df)}

RayReference(name, s) ==
    CASE name = "get_north_ray"     -> RaySquares(s, 0, 1)
      [] name = "get_south_ray"     -> RaySquares(s, 0, -1)
      [] name = "get_east_ray"      -> RaySquares(s, 1, 0)
      [] name = "get_west_ray"      -> RaySquares(s, -1, 0)
      [] name = "get_northeast_ray" -> RaySquares(s, 1, 1)
      [] name = "get_northwest_ray" -> RaySquares(s, -1, 1)
      [] name = "get_southeast_ray" -> RaySquares(s, 1, -1)
      [] name = "get_southwest_ray" -> RaySquares(s, -1, -1)

KnightSquares(s) ==
    {t \in AllBits :
        /\ AbsDiff(t, s) \in {6, 10, 15, 17}
        /\ <<AbsDiff(FileOf(t), FileOf(s)), AbsDiff(RankOf(t), RankOf(s))>>
               \in {<<1, 2>>, <<2, 1>>}}

KingSquares(s) ==
    {t \in AllBits :
        /\ t # s
        /\ AbsDiff(FileOf(t), FileOf(s)) <= 1
        /\ AbsDiff(RankOf(t), RankOf(s)) <= 1}

RookSquares(s) ==
    {t \in AllBits : t # s /\ (FileOf(t) = FileOf(s) \/ RankOf(t) = RankOf(s))}

\* the attack of one piece of the kind the aggregator serves
PerSquare(name, s) ==
    CASE name = "make_knight_attack" -> gen_knight_attack(s)
      [] name = "make_bishop_attack" -> gen_bishop_attack(s)
      [] name = "make_rook_attack"   -> Or(gen_rook_attack_file(s), gen_rook_attack_row(s))
      [] name = "make_queen_attack"  -> gen_queen_attack(s)
      [] name = "make_king_attack"   -> gen_king_attack(s)

\* the squares one rank up (dr = 1) or down (dr = -1) and one file aside of a pawn
PawnSquares(pawns, dr) ==
    {t \in AllBits : \E p \in pawns :
        /\ RankOf(t) = RankOf(p) + dr
        /\ AbsDiff(FileOf(t), FileOf(p)) = 1}

(***************************************************************************)
(* Properties.                                                             *)
(***************************************************************************)
\* C1: a ray function called on a square of the board with an empty
\* accumulator returns exactly the squares s + k*delta (k >= 1) that stay on
\* the board without changing file by more than the direction allows, never
\* the origin; from square 0 the northeast ray has 7 squares and the south,
\* west, northwest, southwest and southeast rays are empty.
C1_RayExact ==
    (fn \in RayNames /\ square \in AllBits /\ bitboard = {}) =>
        /\ outcome = "value"
        /\ res = RayReference(fn, square)
        /\ square \notin res
        /\ (square = 0 /\ fn = "get_northeast_ray") => Cardinality(res) = 7
        /\ (square = 0 /\ fn \in {"get_south_ray", "get_west_ray", "get_northwest_ray",
                                  "get_southwest_ray", "get_southeast_ray"}) => res = {}


\* C2: gen_knight_attack of a square of the board stays inside 0..63, never
\* moves more than two files away, and is exactly the set of knight
\* destinations of the square; from square 0 it is {10, 17}.
C2_KnightExact ==
    (fn = "gen_knight_attack" /\ square \in AllBits) =>
        /\ outcome = "value"
        /\ res \subseteq AllBits
        /\ \A t \in res : AbsDiff(FileOf(t), FileOf(square)) <= 2
        /\ res = KnightSquares(square)
        /\ square \notin res
        /\ square = 0 => res = {10, 17}


\* C3: gen_king_attack of a square of the board is exactly the set of
\* adjacent squares of the board; from square 0 it is {1, 8, 9}.
C3_KingExact ==
    (fn = "gen_king_attack" /\ square \in AllBits) =>
        /\ outcome = "value"
        /\ res = KingSquares(square)
        /\ res \subseteq AllBits
        /\ square = 0 => res = {1, 8, 9}


\* C4: the queen attack of a square of the board is the union of its rook
\* attack (row and file) and its bishop attack, and these two are disjoint.
C4_QueenIsRookPlusBishop ==
    (fn = "gen_queen_attack" /\ square \in AllBits) =>
        LET rook_attack == Or(gen_rook_attack_row(square), gen_rook_attack_file(square))
        IN  /\ outcome = "value"
            /\ res = Or(rook_attack, gen_bishop_attack(square))
            /\ And(rook_attack, gen_bishop_attack(square)) = {}


\* C5: gen_bishop_attack of a square of the board returns a bishop attack that
\* never holds the square itself and whose squares are each on a diagonal of
\* the square: rank and file differ by the same amount, which is not zero.
C5_BishopDiagonal ==
    (fn = "gen_bishop_attack" /\ square \in AllBits) =>
        /\ outcome = "value"
        /\ square \notin res
        /\ \A t \in res :
              /\ AbsDiff(RankOf(t), RankOf(square)) = AbsDiff(FileOf(t), FileOf(square))
              /\ AbsDiff(RankOf(t), RankOf(square)) > 0

\* C6: the rook attack of one rook on an empty board, as make_rook_attack
\* computes it, is exactly the 14 squares sharing the rank or the file of the
\* rook, the rook's square excluded; from square 0 it is file a and rank 1.
C6_RookExact ==
    (fn = "make_rook_attack" /\ Cardinality(bitboard) = 1) =>
        \A s \in bitboard :
            /\ outcome = "value"
            /\ res = RookSquares(s)
            /\ Cardinality(res) = 14
            /\ s = 0 => res = {8, 16, 24, 32, 40, 48, 56} \cup (1 .. 7)


\* C7: an aggregator returns the union of the per-square attack over exactly
\* the hot bits of its occupancy: empty for the empty occupancy, the union of
\* the results for any two occupancies that make up the occupancy, and for
\* knights on 0 and 63 the union of the two knights' attacks.
C7_AggregateIsUnion ==
    (fn \in MakeNames) =>
        /\ outcome = "value"
        /\ res = UNION {PerSquare(fn, s) : s \in bitboard}
        /\ bitboard = {} => res = {}
        /\ \A a, b \in SUBSET bitboard :
              (a \cup b = bitboard) => res = Or(Make(fn, a), Make(fn, b))
        /\ (fn = "make_knight_attack" /\ bitboard = {0, 63}) =>
              res = Or(gen_knight_attack(0), gen_knight_attack(63))


\* C8: the white pawn attacks are exactly the squares of the board one rank
\* above and one file aside of a white pawn, the black pawn attacks those one
\* rank below and one file aside of a black pawn; nothing leaves the 64 bits
\* and nothing wraps between file A and file H.
C8_PawnExact ==
    /\ fn = "white_pawn_attacks" => res = PawnSquares(bitboard, 1)
    /\ fn = "black_pawn_attacks" => res = PawnSquares(bitboard, -1)
    /\ fn \in PawnNames => (outcome = "value" /\ res \subseteq AllBits)

C8_Witness ==
    /\ fn = "white_pawn_attacks"
    /\ bitboard = {15, 56}
    /\ res = {22}

\* C9: when the engine reports two piece kinds of one colour on the same
\* square, update_board signals an integrity error and leaves the stored
\* bitboards and the cached attacks as they were.
C9_OverlapRejected ==
    [][(update_board /\ Overlapping(engine)) =>
           (outcome' = "IntegrityError" /\ stored' = stored /\ cache' = cache)]_vars

\* C10: a per-square attack generator called with a square outside 0..63
\* yields an error, never an attack bitboard.
C10_OutOfRangeRejected ==
    (fn \in GenNames /\ square \notin AllBits) => outcome # "value"

\* C12: setting a bit of a bitboard and then clearing the same bit gives the
\* bitboard with that bit cleared and every other bit as it was.
C12_SetThenClear ==
    (fn = "set_bit_clear_bit" /\ square \in AllBits) =>
        /\ outcome = "value"
        /\ res = bitboard \cap Not({square})
        /\ square \notin res
        /\ \A b \in AllBits \ {square} : (b \in res) <=> (b \in bitboard)

C12_Witness ==
    /\ fn = "set_bit_clear_bit"
    /\ bitboard = {0, 63}
    /\ square = 63
    /\ res = {0}

\* C13: gen_rook_attack_row returns the 7 other squares of the rank of the
\* square and gen_rook_attack_file the 7 other squares of its file, as their
\* docstrings say.
C13_RowIsRankFileIsFile ==
    /\ (fn = "gen_rook_attack_row" /\ square \in AllBits) =>
           outcome = "value" /\ res = {t \in AllBits : t # square /\ RankOf(t) = RankOf(square)}
    /\ (fn = "gen_rook_attack_file" /\ square \in AllBits) =>
           outcome = "value" /\ res = {t \in AllBits : t # square /\ FileOf(t) = FileOf(square)}

\* C14: once update_board has run, whatever the engine and update_board do
\* next, each cached attack bitboard equals the attack recomputed from the
\* stored occupancy of its kind and colour, and the stored occupancy and the
\* cached attacks change in update_board only.
C14_CacheMatchesStored ==
    /\ [](synced => cache = attacks_of(stored))
    /\ [][(stored' # stored \/ cache' # cache) => update_board]_vars


\* C11: a white_pieces query that runs while update_board runs in another
\* thread returns the white occupancy of one single synchronization, never a
\* mix of the bitboards of two of them.
C11_NoTornRead ==
    (fn = "white_pieces" /\ outcome = "value") =>
        \E s \in snaps : res = white_pieces(s)

=============================================================================
